---- MODULE Spec2Model ----
(***************************************************************************)
(* A model of nblast-rs (src/nblast-rs/src/lib.rs): the bin lookup, the    *)
(* score table closure, the neuron constructors, nearest-match scoring     *)
(* and the NblastArena.                                                    *)
(*                                                                         *)
(* Numbers.  `Precision` (f64) is modelled by exact rationals <<n, d>>     *)
(* with d > 0 in lowest terms, plus the three IEEE specials <<1, 0>>       *)
(* (+inf), <<-1, 0>> (-inf) and <<0, 0>> (NaN).  Rounding is therefore not *)
(* modelled: a sum of floats is the exact sum.  Coordinates of points are  *)
(* integers; a unit tangent is an integer vector of length 10, so that a   *)
(* dot product of two tangents is an integer number of hundredths.         *)
(*                                                                         *)
(* Panics.  Every operation returns an outcome record                      *)
(* [panicked |-> BOOLEAN, val |-> ...]; a panic of a callee is propagated  *)
(* by the caller, as unwinding does.                                       *)
(***************************************************************************)
EXTENDS Integers, Sequences, FiniteSets, TLC

VARIABLES
    overflow_checks,   \* build profile: TRUE = usize arithmetic is checked
    score_fn,          \* NblastArena.score_fn: the closure table_to_fn returned
    arena_made,        \* NblastArena::new has run
    neurons_scores,    \* NblastArena.neurons_scores: Vec<(N, Precision)>
    n_adds,            \* number of add_neuron calls that have returned
    ret                \* the value the last call handed to the caller

vars == <<overflow_checks, score_fn, arena_made, neurons_scores, n_adds, ret>>

\* const N_NEIGHBORS: usize = 5
N_NEIGHBORS == 5

\* Largest number of neurons the arena is grown to.
MaxNeurons == 2

(***************************************************************************)
(* Precision                                                               *)
(***************************************************************************)
Abs(i) == IF i < 0 THEN 0 - i ELSE i

Sign(i) == IF i < 0 THEN 0 - 1 ELSE IF i > 0 THEN 1 ELSE 0

RECURSIVE Gcd(_, _)
Gcd(a, b) == IF b = 0 THEN a ELSE Gcd(b, a % b)

\* the rational n/d (d # 0) in lowest terms with a positive denominator
Ratio(n, d) ==
    LET g == Gcd(Abs(n), Abs(d))
        s == Sign(d)
    IN  <<(s * n) \div g, (s * d) \div g>>

F64(i) == <<i, 1>>

NaN == <<0, 0>>

IsNaN(a) == a[1] = 0 /\ a[2] = 0

IsFinite(a) == a[2] # 0

\* a + b (f64 `+`, `+=`)
FAdd(a, b) ==
    IF IsNaN(a) \/ IsNaN(b) THEN NaN
    ELSE IF ~IsFinite(a) /\ ~IsFinite(b) THEN (IF a = b THEN a ELSE NaN)
    ELSE IF ~IsFinite(a) THEN a
    ELSE IF ~IsFinite(b) THEN b
    ELSE Ratio(a[1] * b[2] + b[1] * a[2], a[2] * b[2])

\* a * b (f64 `*`)
FMul(a, b) ==
    IF IsNaN(a) \/ IsNaN(b) THEN NaN
    ELSE IF ~IsFinite(a) \/ ~IsFinite(b)
         THEN <<Sign(a[1]) * Sign(b[1]), 0>>
    ELSE Ratio(a[1] * b[1], a[2] * b[2])

\* a / b (f64 `/`, `/=`): x/0 is an infinity, 0/0 and inf/inf are NaN
FDiv(a, b) ==
    IF IsNaN(a) \/ IsNaN(b) THEN NaN
    ELSE IF ~IsFinite(a) /\ ~IsFinite(b) THEN NaN
    ELSE IF ~IsFinite(a) THEN <<a[1] * (IF b[1] < 0 THEN 0 - 1 ELSE 1), 0>>
    ELSE IF ~IsFinite(b) THEN F64(0)
    ELSE IF b[1] = 0 THEN <<Sign(a[1]), 0>>
    ELSE Ratio(a[1] * b[2], a[2] * b[1])

\* a.partial_cmp(&b): "None" when either side is NaN
partial_cmp(a, b) ==
    IF IsNaN(a) \/ IsNaN(b) THEN "None"
    ELSE IF a = b THEN "Equal"
    ELSE IF ~IsFinite(a) THEN (IF a[1] < 0 THEN "Less" ELSE "Greater")
    ELSE IF ~IsFinite(b) THEN (IF b[1] < 0 THEN "Greater" ELSE "Less")
    ELSE IF a[1] * b[2] < b[1] * a[2] THEN "Less" ELSE "Greater"

FLeq(a, b) == partial_cmp(a, b) \in {"Less", "Equal"}

FLess(a, b) == partial_cmp(a, b) = "Less"

(***************************************************************************)
(* Outcomes of a call                                                      *)
(***************************************************************************)
Ok(v) == [panicked |-> FALSE, val |-> v]

Panic == [panicked |-> TRUE, val |-> <<>>]

(***************************************************************************)
(* find_bin_binary                                                         *)
(***************************************************************************)
\* The loop of slice::binary_search_by with the comparator
\* |bound| bound.partial_cmp(&value).unwrap(); indices are 0-based as in
\* the code, s[i] of the code is s[i + 1] here.  The result is
\* <<"Ok", i>>, <<"Err", i>> or <<"Panic", 0>> (unwrap of None).
RECURSIVE binary_search_loop(_, _, _, _)
binary_search_loop(s, value, base, size) ==
    IF size > 1
    THEN LET half == size \div 2
             mid == base + half
             Step(cmp) ==
                 IF cmp = "None" THEN <<"Panic", 0>>
                 ELSE binary_search_loop(s, value,
                          IF cmp = "Greater" THEN base ELSE mid, size - half)
         IN  Step(partial_cmp(s[mid + 1], value))
    ELSE LET Last(cmp) ==
                 IF cmp = "None" THEN <<"Panic", 0>>
                 ELSE IF cmp = "Equal" THEN <<"Ok", base>>
                 ELSE <<"Err", base + (IF cmp = "Less" THEN 1 ELSE 0)>>
         IN  Last(partial_cmp(s[base + 1], value))

binary_search_by(s, value) ==
    IF Len(s) = 0 THEN <<"Err", 0>> ELSE binary_search_loop(s, value, 0, Len(s))

\* The mutant: a match at index v is reported as bin v, not v + 1.
find_bin_binary_eq_same(value, upper_bounds, checked) ==
    LET Clamp(found) ==
            IF found[1] = "Panic" THEN Panic
            ELSE IF Len(upper_bounds) = 0
                 THEN (IF checked THEN Panic ELSE Ok(found[2]))
            ELSE LET highest == Len(upper_bounds) - 1
                 IN  Ok(IF found[2] > highest THEN highest ELSE found[2])
    IN  Clamp(binary_search_by(upper_bounds, value))

\* fn find_bin_binary(value, upper_bounds) -> usize.  `checked` is the build
\* profile: upper_bounds.len() - 1 on an empty slice panics when overflow
\* checks are on and wraps to usize::MAX when they are off (raw = 0 is then
\* not greater, so 0 is returned).
find_bin_binary(value, upper_bounds, checked) ==
    LET Clamp(found) ==
            IF found[1] = "Panic" THEN Panic
            ELSE LET raw == IF found[1] = "Ok" THEN found[2] + 1 ELSE found[2]
                 IN  IF Len(upper_bounds) = 0
                     THEN (IF checked THEN Panic ELSE Ok(raw))
                     ELSE LET highest == Len(upper_bounds) - 1
                          IN  Ok(IF raw > highest THEN highest ELSE raw)
    IN  Clamp(binary_search_by(upper_bounds, value))

(***************************************************************************)
(* table_to_fn                                                             *)
(***************************************************************************)
\* DistDot { dist, dot }
DistDot(dist, dot) == [dist |-> dist, dot |-> dot]

\* impl Default for DistDot
DistDotDefault == DistDot(F64(0), F64(1))

\* pub fn table_to_fn(dist_thresholds, dot_thresholds, cells): panics when
\* the number of cells is not D * K, otherwise returns the closure, which
\* is its three captured vectors.
table_to_fn(dist_thresholds, dot_thresholds, cells) ==
    IF Len(dist_thresholds) * Len(dot_thresholds) # Len(cells)
    THEN Panic
    ELSE Ok([dist_thresholds |-> dist_thresholds,
             dot_thresholds |-> dot_thresholds,
             cells |-> cells])

\* lin_idx of the closure (0-based), or a panic of a bin lookup
lin_idx(f, dd, checked) ==
    LET Index(col_idx, row_idx) ==
            IF col_idx.panicked \/ row_idx.panicked THEN Panic
            ELSE Ok(row_idx.val * Len(f.dot_thresholds) + col_idx.val)
    IN  Index(find_bin_binary(dd.dot, f.dot_thresholds, checked),
              find_bin_binary(dd.dist, f.dist_thresholds, checked))

\* The closure table_to_fn returns, applied to dd: cells[lin_idx], which
\* panics when lin_idx is out of bounds.
call_score_fn(f, dd, checked) ==
    LET Cell(i) ==
            IF i.panicked THEN Panic
            ELSE IF i.val >= Len(f.cells) THEN Panic
            ELSE Ok(f.cells[i.val + 1])
    IN  Cell(lin_idx(f, dd, checked))

\* Option<T>
None == <<>>

Some(x) == <<x>>

(***************************************************************************)
(* Points, tangents and the R-tree                                         *)
(***************************************************************************)
\* [Precision; 3] with integer coordinates
Pt(x) == <<x, 0, 0>>

subtract_points(p1, p2) == <<p1[1] - p2[1], p1[2] - p2[2], p1[3] - p2[3]>>

Dot3(u, v) == u[1] * v[1] + u[2] * v[2] + u[3] * v[3]

\* squared Euclidean distance, as rstar reports it
Dist2(p1, p2) == Dot3(subtract_points(p1, p2), subtract_points(p1, p2))

\* dist2.sqrt(), exact: the points used lie on a line of the integer
\* lattice, so every squared distance is a perfect square
Sqrt(n) == CHOOSE r \in 0..n : r * r = n

\* Unit<Vector3<Precision>> scaled by 10
EX == <<10, 0, 0>>

EY == <<0, 10, 0>>

EZ == <<0, 0, 10>>

D68 == <<6, 8, 0>>

UnitVectors == {EX, EY, EZ, D68}

\* A Unit<Vector3<Precision>> with a NaN component, which is what
\* Unit::new_normalize makes of a column that is not finite.  It is written
\* as the one triple that no unit vector is.
NaNVector == <<0, 0, 0>>

IsFiniteVector(v) == v # NaNVector

\* this_tangent.dot(tangent).abs(): NaN when a component is NaN
AbsDot(t1, t2) ==
    IF ~IsFiniteVector(t1) \/ ~IsFiniteVector(t2) THEN NaN
    ELSE Ratio(Abs(Dot3(t1, t2)), 100)

Range(s) == {s[i] : i \in DOMAIN s}

\* The point arrays handed to the constructors: a line of five points, a
\* line with a repeated point, and an array that is too short.
PointsLine == <<Pt(0), Pt(1), Pt(2), Pt(3), Pt(4)>>

PointsDup == <<Pt(0), Pt(0), Pt(1), Pt(2), Pt(3)>>

PointsShort == <<Pt(0), Pt(1), Pt(2), Pt(3)>>

\* the point arrays handed to new
PointArrays == {PointsLine, PointsShort}

\* A point far from the origin: <<x, y, z, e>> is the point
\* (x, y, z) * 2^e.  A power of two scales every f64 sum, difference and
\* product exactly as long as the result stays below 2^1024.
HugePt(k) == <<k, k, 0, 512>>

\* the binary exponent a point is written with
Exponent(p) == IF Len(p) = 4 THEN p[4] ELSE 0

\* five points on a diagonal, 2^512 apart in x and in y
PointsHuge == <<HugePt(0), HugePt(1), HugePt(2), HugePt(3), HugePt(4)>>

HugeArrays == {PointsHuge}

\* the point in units of 2^e, e being its own exponent or a larger one: a
\* point written with a smaller exponent is 0 at that scale
Scaled(p, e) == IF Exponent(p) = e THEN <<p[1], p[2], p[3]>> ELSE <<0, 0, 0>>

\* the squared distance of the two points reaches 2^1024: rstar computes
\* it as infinity
Far(p1, p2) ==
    LET Reaches(e) ==
            /\ 2 * e >= 1024
            /\ Dist2(Scaled(p1, e), Scaled(p2, e)) * 2 ^ (2 * e - 1024) >= 1
    IN  Reaches(IF Exponent(p1) >= Exponent(p2) THEN Exponent(p1) ELSE Exponent(p2))

\* the squared distance from `point` to p1 is at most that to p2
NotFarther(p1, p2, point) ==
    \/ Far(p2, point)
    \/ ~Far(p1, point) /\ Dist2(p1, point) <= Dist2(p2, point)

\* The tangent arrays handed to new_with_tangents: tangents that differ
\* from point to point, and an array with no tangent at all.
TangentsMixed == <<EX, EY, EX, D68, EX>>

TangentsNone == <<>>

\* the (points, tangents) pairs handed to new_with_tangents
TangentInputs ==
    {<<PointsDup, TangentsMixed>>, <<PointsLine, TangentsNone>>,
     <<PointsShort, TangentsMixed>>}

\* every position a nearest-neighbour query is made at
Grid == UNION {Range(pa) : pa \in PointArrays \cup {in[1] : in \in TangentInputs}}

\* the functions f on D with f[x] \in cand[x] for every x
RECURSIVE Choices(_, _)
Choices(D, cand) ==
    IF D = {} THEN {<<>>}
    ELSE LET x == CHOOSE y \in D : TRUE
         IN  {(x :> v) @@ f : v \in cand[x], f \in Choices(D \ {x}, cand)}

\* the indices (1-based; PointWithIndex.data + 1) of the stored points
\* nearest to `point`
Nearest(points, point) ==
    {i \in DOMAIN points :
        \A j \in DOMAIN points : NotFarther(points[i], points[j], point)}

\* RTree<PointWithIndex>: the stored points and, for each query position,
\* the element nearest_neighbor_iter yields first.  Among equidistant
\* elements the tree's layout decides; the layout is fixed when the tree is
\* built, so every tree answers a repeated query the same way.
RTrees(points) ==
    {[points |-> points, first |-> f] :
        f \in Choices(Grid, [p \in Grid |-> Nearest(points, p)])}

\* fn points_to_rtree(points): Err("Not enough points") below N_NEIGHBORS
\* points, otherwise the bulk-loaded tree (one of RTrees(points)).
points_to_rtree_ok(points) == ~(Len(points) < N_NEIGHBORS)

(***************************************************************************)
(* Tangent estimation                                                      *)
(***************************************************************************)
\* rtree.nearest_neighbor_iter(&point).take(N_NEIGHBORS): the possible sets
\* of the N_NEIGHBORS nearest elements
NeighborSets(points, point) ==
    {S \in SUBSET DOMAIN points :
        /\ Cardinality(S) = N_NEIGHBORS
        /\ \A i \in S : \A j \in DOMAIN points \ S :
               NotFarther(points[i], points[j], point)}

RECURSIVE SumPoints(_, _)
SumPoints(points, S) ==
    IF S = {} THEN <<0, 0, 0>>
    ELSE LET i == CHOOSE k \in S : TRUE
             r == SumPoints(points, S \ {i})
         IN  <<r[1] + points[i][1], r[2] + points[i][2], r[3] + points[i][3]>>

\* center_points, scaled by the number of points n: n * (p - mean)
center_points(points, S) ==
    LET n == Cardinality(S)
        sum == SumPoints(points, S)
    IN  [i \in S |-> <<n * points[i][1] - sum[1],
                       n * points[i][2] - sum[2],
                       n * points[i][3] - sum[3]>>]

RECURSIVE SumProducts(_, _, _, _)
SumProducts(c, S, a, b) ==
    IF S = {} THEN 0
    ELSE LET i == CHOOSE k \in S : TRUE
         IN  c[i][a] * c[i][b] + SumProducts(c, S \ {i}, a, b)

\* inertia = neighbor_mat * neighbor_mat.transpose() (times n * n)
Inertia(points, S) ==
    LET c == center_points(points, S)
    IN  [a \in 1..3 |-> [b \in 1..3 |-> SumProducts(c, S, a, b)]]

IsDiagonal(m) == \A a, b \in 1..3 : a # b => m[a][b] = 0

\* neighbor_mat * neighbor_mat.transpose() has an entry that is not
\* finite: the product of two centred coordinates, c[i][a] * c[i][b] / n^2
\* times 2^(2e), reaches 2^1024 and f64 rounds it to infinity
Overflows(points, S) ==
    \E i \in S : \E a, b \in 1..3 :
        /\ 2 * Exponent(points[i]) >= 1024
        /\ Abs(center_points(points, S)[i][a] * center_points(points, S)[i][b])
               * 2 ^ (2 * Exponent(points[i]) - 1024)
             >= Cardinality(S) * Cardinality(S)

Axis(a) == IF a = 1 THEN EX ELSE IF a = 2 THEN EY ELSE EZ

\* pub fn points_to_tangent_eig: Some(Unit::new_normalize(column)) of the
\* column symmetric_eigen and argmax pick for the largest eigenvalue; there
\* is no path that returns None.  The point arrays with a finite inertia
\* lie along an axis, so the matrix is diagonal: a single largest entry
\* gives that axis (up to sign, which only |dot| reads); when the largest
\* eigenvalue is repeated every unit vector of the eigenspace is an
\* eigenvector.  The decomposition of a matrix with an infinite entry is
\* nalgebra's to decide (it divides by the largest entry, inf / inf = NaN):
\* the column may have NaN components or be any unit vector.
points_to_tangent_eig(points, S) ==
    LET m == Inertia(points, S)
        top == {a \in 1..3 : \A b \in 1..3 : m[a][a] >= m[b][b]}
    IN  IF Overflows(points, S)
        THEN {Some(u) : u \in UnitVectors \cup {NaNVector}}
        ELSE IF Cardinality(top) = 1
        THEN {Some(Axis(CHOOSE a \in top : TRUE))}
        ELSE {Some(u) : u \in {v \in UnitVectors :
                                  \A a \in 1..3 : a \notin top => v[a] = 0}}

\* what points_to_tangent_eig can return for each point of `points`: the
\* columns of neighbor_mat come in the order of distance from the point,
\* so every point's decomposition is a computation of its own
TangentChoices(points) ==
    Choices(DOMAIN points,
            [i \in DOMAIN points |->
                UNION {points_to_tangent_eig(points, S) :
                          S \in NeighborSets(points, points[i])}])

(***************************************************************************)
(* RStarPointTangents                                                      *)
(***************************************************************************)
OkResult(v) == [tag |-> "Ok", val |-> v]

ErrResult(e) == [tag |-> "Err", val |-> e]

\* fn points_to_rtree_tangents(points): the results it can return.  A
\* None of points_to_tangent_eig ends the loop with Err("Failed to SVD"),
\* a Some(t) pushes t.
points_to_rtree_tangents(points) ==
    IF ~points_to_rtree_ok(points)
    THEN {ErrResult("Not enough points")}
    ELSE {IF \E i \in DOMAIN points : t[i] = None
          THEN ErrResult("Failed to SVD")
          ELSE OkResult([rtree |-> tree,
                         tangents |-> [i \in DOMAIN points |-> t[i][1]]]) :
             tree \in RTrees(points), t \in TangentChoices(points)}

\* RStarPointTangents::new(points): the results it can return
new(points) == points_to_rtree_tangents(points)

\* RStarPointTangents::new_with_tangents(points, tangents): the tangents
\* are stored as given
new_with_tangents(points, tangents) ==
    IF ~points_to_rtree_ok(points)
    THEN {ErrResult("Not enough points")}
    ELSE {OkResult([rtree |-> tree, tangents |-> tangents]) :
             tree \in RTrees(points)}

\* new and new_with_tangents tabulated over the inputs, so that the sets of
\* results are computed once
NewResults == [pts \in PointArrays \cup HugeArrays |-> new(pts)]

NewWithTangentsResults == [in \in TangentInputs |-> new_with_tangents(in[1], in[2])]

\* QueryNeuron::len for RStarPointTangents
len(self) == Len(self.tangents)

\* QueryNeuron::points for RStarPointTangents: the stored points sorted by
\* their index
points_of(self) == self.rtree.points

\* QueryNeuron::tangents
tangents_of(self) == self.tangents

\* TargetNeuron::nearest_match_dist_dot: self.tangents[element.data]
\* panics when the element's index is not an index of the tangents
nearest_match_dist_dot(self, point, tangent) ==
    LET Match(element) ==
            IF element > Len(self.tangents) THEN Panic
            ELSE Ok(DistDot(F64(Sqrt(Dist2(self.rtree.points[element], point))),
                            AbsDot(self.tangents[element], tangent)))
    IN  Match(self.rtree.first[point])

\* the loop of RStarPointTangents::query from the point of index i on,
\* score_total being the sum so far
RECURSIVE query_from(_, _, _, _, _, _)
query_from(self, target, f, checked, i, score_total) ==
    IF i > Len(self.rtree.points) THEN Ok(score_total)
    ELSE IF i > Len(self.tangents) THEN Panic
    ELSE LET Add(score) ==
                 IF score.panicked THEN Panic
                 ELSE query_from(self, target, f, checked, i + 1,
                                 FAdd(score_total, score.val))
             Score(dd) ==
                 IF dd.panicked THEN Panic
                 ELSE Add(call_score_fn(f, dd.val, checked))
         IN  Score(nearest_match_dist_dot(target, self.rtree.points[i],
                                          self.tangents[i]))

\* QueryNeuron::query for RStarPointTangents.  The tree's iteration order
\* is the order of the sum; the exact sum does not depend on it.
query(self, target, f, checked) == query_from(self, target, f, checked, 1, F64(0))

\* QueryNeuron::self_hit: score_fn(&DistDot::default()) * self.len()
self_hit_of(self, f, checked) ==
    LET Times(s) == IF s.panicked THEN Panic ELSE Ok(FMul(s.val, F64(len(self))))
    IN  Times(call_score_fn(f, DistDotDefault, checked))

(***************************************************************************)
(* NblastArena                                                             *)
(***************************************************************************)
\* Vec::get with a 0-based index
InRange(idx) == idx < Len(neurons_scores)

Get(idx) == neurons_scores[idx + 1]

\* The mutant: indices are handed out from 1.
next_id_one_based == Len(neurons_scores) + 1

\* fn next_id(&self)
next_id == Len(neurons_scores)

\* pub fn add_neuron(&mut self, neuron): the index returned and the vector
\* after the push; a panic of self_hit leaves the vector as it was
add_neuron(neuron) ==
    LET idx == next_id
        Push(score) ==
            IF score.panicked
            THEN [out |-> Panic, neurons_scores |-> neurons_scores]
            ELSE [out |-> Ok(idx),
                  neurons_scores |->
                      Append(neurons_scores,
                             [neuron |-> neuron, score |-> score.val])]
    IN  Push(self_hit_of(neuron, score_fn, overflow_checks))

\* The mutant: the second score of a symmetric query is computed in the
\* same direction as the first.
query_target_same_direction(query_idx, target_idx, normalized, symmetric) ==
    IF ~InRange(query_idx) THEN Ok(None)
    ELSE IF ~InRange(target_idx) THEN Ok(None)
    ELSE LET q == Get(query_idx)
             t == Get(target_idx)
             Norm(s, self_hit_score) ==
                 IF normalized THEN FDiv(s, self_hit_score) ELSE s
             Mean(score, score2) ==
                 IF score2.panicked THEN Panic
                 ELSE Ok(Some(FDiv(FAdd(score, Norm(score2.val, t.score)),
                                   F64(2))))
             Sym(score) ==
                 IF ~symmetric THEN Ok(Some(score))
                 ELSE Mean(score, query(q.neuron, t.neuron, score_fn,
                                        overflow_checks))
             First(score) ==
                 IF score.panicked THEN Panic
                 ELSE Sym(Norm(score.val, q.score))
         IN  First(query(q.neuron, t.neuron, score_fn, overflow_checks))

\* pub fn query_target(&self, query_idx, target_idx, normalized, symmetric)
query_target(query_idx, target_idx, normalized, symmetric) ==
    IF ~InRange(query_idx) THEN Ok(None)
    ELSE IF ~InRange(target_idx) THEN Ok(None)
    ELSE LET q == Get(query_idx)
             t == Get(target_idx)
             Norm(s, self_hit_score) ==
                 IF normalized THEN FDiv(s, self_hit_score) ELSE s
             Mean(score, score2) ==
                 IF score2.panicked THEN Panic
                 ELSE Ok(Some(FDiv(FAdd(score, Norm(score2.val, t.score)),
                                   F64(2))))
             Sym(score) ==
                 IF ~symmetric THEN Ok(Some(score))
                 ELSE Mean(score, query(t.neuron, q.neuron, score_fn,
                                        overflow_checks))
             First(score) ==
                 IF score.panicked THEN Panic
                 ELSE Sym(Norm(score.val, q.score))
         IN  First(query(q.neuron, t.neuron, score_fn, overflow_checks))

\* HashMap::insert
Insert(out, key, val) ==
    [k \in DOMAIN out \cup {key} |-> IF k = key THEN val ELSE out[k]]

\* The mutant: the diagonal entry 1.0 of a normalized batch is inserted
\* without the check that the index is in range.
queries_targets_pair_unchecked(q_idx, t_idx, normalize, symmetric, out) ==
    LET key == <<q_idx, t_idx>>
        Entry(s) ==
            IF s.panicked THEN s
            ELSE IF s.val = None THEN Ok(out)
            ELSE Ok(Insert(out, key, s.val[1]))
    IN  IF q_idx = t_idx
        THEN IF normalize THEN Ok(Insert(out, key, F64(1)))
             ELSE IF InRange(q_idx)
             THEN Ok(Insert(out, key, FMul(F64(1), Get(q_idx).score)))
             ELSE Ok(out)
        ELSE IF symmetric /\ <<t_idx, q_idx>> \in DOMAIN out
        THEN Ok(Insert(out, key, out[<<t_idx, q_idx>>]))
        ELSE Entry(query_target(q_idx, t_idx, normalize, symmetric))

\* the body of the inner loop of queries_targets for the pair
\* (q_idx, t_idx): the map after it, or the panic of query_target
queries_targets_pair(q_idx, t_idx, normalize, symmetric, out) ==
    LET key == <<q_idx, t_idx>>
        Entry(s) ==
            IF s.panicked THEN s
            ELSE IF s.val = None THEN Ok(out)
            ELSE Ok(Insert(out, key, s.val[1]))
    IN  IF q_idx = t_idx
        THEN IF InRange(q_idx)
             THEN Ok(Insert(out, key,
                      IF normalize THEN F64(1)
                      ELSE FMul(F64(1), Get(q_idx).score)))
             ELSE Ok(out)
        ELSE IF symmetric /\ <<t_idx, q_idx>> \in DOMAIN out
        THEN Ok(Insert(out, key, out[<<t_idx, q_idx>>]))
        ELSE Entry(query_target(q_idx, t_idx, normalize, symmetric))

\* the two loops of queries_targets from the pair at positions (qi, ti) on
RECURSIVE queries_targets_from(_, _, _, _, _, _, _)
queries_targets_from(query_idxs, target_idxs, normalize, symmetric, qi, ti, out) ==
    IF qi > Len(query_idxs) THEN Ok(out)
    ELSE IF ti > Len(target_idxs)
    THEN queries_targets_from(query_idxs, target_idxs, normalize, symmetric,
                              qi + 1, 1, out)
    ELSE
    LET Continue(o) ==
            IF o.panicked THEN Panic
            ELSE queries_targets_from(query_idxs, target_idxs, normalize,
                                      symmetric, qi, ti + 1, o.val)
    IN  Continue(queries_targets_pair(query_idxs[qi], target_idxs[ti],
                                      normalize, symmetric, out))

\* pub fn queries_targets(&self, query_idxs, target_idxs, normalize, symmetric)
queries_targets(query_idxs, target_idxs, normalize, symmetric) ==
    queries_targets_from(query_idxs, target_idxs, normalize, symmetric, 1, 1, <<>>)

\* pub fn self_hit(&self, idx)
self_hit(idx) == IF InRange(idx) THEN Some(Get(idx).score) ELSE None

\* pub fn all_v_all(&self, normalize, symmetric)
all_v_all(normalize, symmetric) ==
    LET idxs == [i \in 1..Len(neurons_scores) |-> i - 1]
    IN  queries_targets(idxs, idxs, normalize, symmetric)

\* pub fn points(&self, idx)
points(idx) == IF InRange(idx) THEN Some(points_of(Get(idx).neuron)) ELSE None

\* pub fn tangents(&self, idx)
tangents(idx) == IF InRange(idx) THEN Some(tangents_of(Get(idx).neuron)) ELSE None

(***************************************************************************)
(* Inputs                                                                  *)
(***************************************************************************)
Half == Ratio(1, 2)

\* the table of the tests `score_function` and `arena`
TableTest == <<  <<F64(1), F64(2)>>, <<Half, F64(1)>>,
                 <<F64(1), F64(2), F64(4), F64(8)>>  >>

\* three dot bins, with a threshold above 1
TableWide == <<  <<F64(1), F64(2)>>, <<Half, F64(1), F64(2)>>,
                 <<F64(1), F64(2), F64(3), F64(4), F64(5), F64(6)>>  >>

\* no thresholds and no cells: 0 * 0 = 0 cells
TableEmpty == <<  <<>>, <<>>, <<>>  >>

\* no dot thresholds: 2 * 0 = 0 cells
TableNoDots == <<  <<F64(1), F64(2)>>, <<>>, <<>>  >>

\* one cell for two distance bins
TableBad == <<  <<F64(1), F64(2)>>, <<Half>>, <<F64(1)>>  >>

ArenaTables == {TableTest, TableEmpty, TableBad}

FnTables == ArenaTables \cup {TableWide, TableNoDots}

\* the values looked up: below, at, between and above the thresholds, and NaN
Values == {Ratio(i, 2) : i \in (0 - 1)..5} \cup {NaN}

\* the DistDot values the closure is applied to
DistDots == {DistDot(d, t) : d \in {F64(0), F64(1), Ratio(3, 2), F64(2), F64(3)},
                             t \in {F64(0), Half, Ratio(3, 4), F64(1), F64(3), NaN}}

\* strictly ascending arrays of upper bounds, and the empty array
UpperBounds ==
    {<<>>, <<F64(1)>>, <<F64(0), F64(1)>>, <<F64(1), F64(2)>>, <<Half, F64(1)>>,
     <<F64(0), F64(1), F64(2)>>, <<Half, F64(1), F64(2)>>,
     <<F64(0), Half, F64(1), F64(2)>>,
     <<F64(0), Half, F64(1), Ratio(3, 2), F64(2)>>}

\* the indices handed to the arena: every index in range and one beyond
Idxs == 0..MaxNeurons

\* the index lists handed to queries_targets: at most two indices
IdxLists == {<<>>} \cup {<<i>> : i \in Idxs} \cup {<<i, j>> : i \in Idxs, j \in Idxs}

(***************************************************************************)
(* The state machine                                                       *)
(***************************************************************************)
Idle == [op |-> "idle"]

NoFn == [dist_thresholds |-> <<>>, dot_thresholds |-> <<>>, cells |-> <<>>]

Init ==
    /\ overflow_checks \in BOOLEAN
    /\ score_fn = NoFn
    /\ arena_made = FALSE
    /\ neurons_scores = <<>>
    /\ n_adds = 0
    /\ ret = Idle

Arena == <<score_fn, arena_made, neurons_scores, n_adds>>

\* the caller drops the value it holds
DropResult ==
    /\ ret # Idle
    /\ ret' = Idle
    /\ UNCHANGED <<overflow_checks, Arena>>

\* find_bin_binary(value, upper_bounds)
FindBin(value, upper_bounds) ==
    /\ ret = Idle
    /\ ret' = [op |-> "find_bin_binary", value |-> value,
               upper_bounds |-> upper_bounds,
               out |-> find_bin_binary(value, upper_bounds, overflow_checks)]
    /\ UNCHANGED <<overflow_checks, Arena>>

\* table_to_fn(dist_thresholds, dot_thresholds, cells)
TableToFn(table) ==
    /\ ret = Idle
    /\ ~arena_made
    /\ ret' = [op |-> "table_to_fn", table |-> table,
               out |-> table_to_fn(table[1], table[2], table[3])]
    /\ UNCHANGED <<overflow_checks, Arena>>

\* the caller applies the closure it holds to dd
CallScoreFn(dd) ==
    /\ ret.op = "table_to_fn"
    /\ ~ret.out.panicked
    /\ ret' = [op |-> "score_fn", f |-> ret.out.val, dd |-> dd,
               out |-> call_score_fn(ret.out.val, dd, overflow_checks)]
    /\ UNCHANGED <<overflow_checks, Arena>>

\* NblastArena::new(score_fn) with the closure the caller holds
ArenaNew ==
    /\ ret.op = "table_to_fn"
    /\ ~ret.out.panicked
    /\ ~arena_made
    /\ score_fn' = ret.out.val
    /\ arena_made' = TRUE
    /\ neurons_scores' = <<>>
    /\ ret' = Idle
    /\ UNCHANGED <<overflow_checks, n_adds>>

\* RStarPointTangents::new(points)
New(pts) ==
    /\ ret = Idle
    /\ \E res \in NewResults[pts] :
           ret' = [op |-> "new", points |-> pts, tangents |-> <<>>, res |-> res]
    /\ UNCHANGED <<overflow_checks, Arena>>

\* RStarPointTangents::new_with_tangents(points, tangents)
NewWithTangents(pts, tans) ==
    /\ ret = Idle
    /\ \E res \in NewWithTangentsResults[<<pts, tans>>] :
           ret' = [op |-> "new_with_tangents", points |-> pts,
                   tangents |-> tans, res |-> res]
    /\ UNCHANGED <<overflow_checks, Arena>>

\* arena.add_neuron(neuron) with the neuron the caller holds
AddNeuron ==
    /\ arena_made
    /\ ret.op \in {"new", "new_with_tangents"}
    /\ ret.res.tag = "Ok"
    /\ n_adds < MaxNeurons
    /\ LET Store(r) ==
               /\ neurons_scores' = r.neurons_scores
               /\ ret' = [op |-> "add_neuron", neuron |-> ret.res.val,
                          out |-> r.out]
               /\ n_adds' = IF r.out.panicked THEN n_adds ELSE n_adds + 1
       IN  Store(add_neuron(ret.res.val))
    /\ UNCHANGED <<overflow_checks, score_fn, arena_made>>

\* arena.query_target(query_idx, target_idx, normalized, symmetric)
QueryTarget(query_idx, target_idx, normalized, symmetric) ==
    /\ arena_made
    /\ ret = Idle
    /\ ret' = [op |-> "query_target", query_idx |-> query_idx,
               target_idx |-> target_idx, normalized |-> normalized,
               symmetric |-> symmetric,
               out |-> query_target(query_idx, target_idx, normalized, symmetric)]
    /\ UNCHANGED <<overflow_checks, Arena>>

\* arena.self_hit(idx)
SelfHit(idx) ==
    /\ arena_made
    /\ ret = Idle
    /\ ret' = [op |-> "self_hit", idx |-> idx, out |-> Ok(self_hit(idx))]
    /\ UNCHANGED <<overflow_checks, Arena>>

\* arena.points(idx)
Points(idx) ==
    /\ arena_made
    /\ ret = Idle
    /\ ret' = [op |-> "points", idx |-> idx, out |-> Ok(points(idx))]
    /\ UNCHANGED <<overflow_checks, Arena>>

\* arena.tangents(idx)
Tangents(idx) ==
    /\ arena_made
    /\ ret = Idle
    /\ ret' = [op |-> "tangents", idx |-> idx, out |-> Ok(tangents(idx))]
    /\ UNCHANGED <<overflow_checks, Arena>>

\* arena.queries_targets(query_idxs, target_idxs, normalize, symmetric)
QueriesTargets(query_idxs, target_idxs, normalize, symmetric) ==
    /\ arena_made
    /\ ret = Idle
    /\ ret' = [op |-> "queries_targets", query_idxs |-> query_idxs,
               target_idxs |-> target_idxs, normalize |-> normalize,
               symmetric |-> symmetric,
               out |-> queries_targets(query_idxs, target_idxs, normalize,
                                       symmetric)]
    /\ UNCHANGED <<overflow_checks, Arena>>

\* arena.all_v_all(normalize, symmetric)
AllVAll(normalize, symmetric) ==
    /\ arena_made
    /\ ret = Idle
    /\ ret' = [op |-> "all_v_all", normalize |-> normalize,
               symmetric |-> symmetric,
               out |-> all_v_all(normalize, symmetric)]
    /\ UNCHANGED <<overflow_checks, Arena>>

Construct ==
    \/ \E pts \in PointArrays : New(pts)
    \/ \E in \in TangentInputs : NewWithTangents(in[1], in[2])

Next ==
    \/ \E table \in ArenaTables : TableToFn(table)
    \/ ArenaNew
    \/ Construct
    \/ AddNeuron
    \/ \E q \in Idxs, t \in Idxs, n \in BOOLEAN, s \in BOOLEAN : QueryTarget(q, t, n, s)
    \/ \E i \in Idxs : SelfHit(i)
    \/ \E i \in Idxs : Points(i)
    \/ \E i \in Idxs : Tangents(i)
    \/ \E qs \in IdxLists, ts \in IdxLists, n \in BOOLEAN, s \in BOOLEAN :
           QueriesTargets(qs, ts, n, s)
    \/ \E n \in BOOLEAN, s \in BOOLEAN : AllVAll(n, s)
    \/ DropResult

\* the arena, its neurons and every query
Spec == Init /\ [][Next]_vars

NextBin ==
    \/ \E value \in Values, upper_bounds \in UpperBounds : FindBin(value, upper_bounds)
    \/ DropResult

\* the bin lookup applied to bounded inputs
SpecBin == Init /\ [][NextBin]_vars

NextFn ==
    \/ \E table \in FnTables : TableToFn(table)
    \/ \E dd \in DistDots : CallScoreFn(dd)
    \/ DropResult

\* the score table closure applied to bounded inputs
SpecFn == Init /\ [][NextFn]_vars

NextNew ==
    \/ \E pts \in PointArrays \cup HugeArrays : New(pts)
    \/ \E in \in TangentInputs : NewWithTangents(in[1], in[2])
    \/ DropResult

\* the constructors applied to bounded inputs, the points far from the
\* origin included
SpecNew == Init /\ [][NextNew]_vars

(***************************************************************************)
(* Properties                                                              *)
(***************************************************************************)
\* two outcomes are the same: both panics, or the same value
SameOutcome(a, b) ==
    /\ a.panicked = b.panicked
    /\ ~a.panicked => a.val = b.val

\* the 0-based index of the first bound that satisfies Below, or the last
\* index when no bound does
FirstBound(upper_bounds, Below(_)) ==
    IF \E i \in DOMAIN upper_bounds : Below(upper_bounds[i])
    THEN (CHOOSE i \in DOMAIN upper_bounds :
             /\ Below(upper_bounds[i])
             /\ \A j \in 1..(i - 1) : ~Below(upper_bounds[j])) - 1
    ELSE Len(upper_bounds) - 1

\* a lookup of an ordinary value in a non-empty array of bounds has returned
BinLookedUp ==
    /\ ret.op = "find_bin_binary"
    /\ ret.upper_bounds # <<>>
    /\ ~IsNaN(ret.value)

\* C1, as claimed: find_bin_binary(v, upper) is the smallest index i with
\* v <= upper[i], and the last index when v is above every bound; a value
\* equal to upper[i] is placed in bin i.
C1_SmallestLeq ==
    BinLookedUp =>
        /\ ~ret.out.panicked
        /\ ret.out.val = FirstBound(ret.upper_bounds, LAMBDA b : FLeq(ret.value, b))

\* C1, amended: find_bin_binary(v, upper) is the smallest index i with
\* v < upper[i], and the last index when no bound is above v; a value equal
\* to upper[i] is placed in bin i + 1, or in the last bin when i is the last
\* index.
C1_SmallestGreater ==
    BinLookedUp =>
        /\ ~ret.out.panicked
        /\ ret.out.val = FirstBound(ret.upper_bounds, LAMBDA b : FLess(ret.value, b))
        /\ \A i \in DOMAIN ret.upper_bounds :
               ret.value = ret.upper_bounds[i] =>
                   ret.out.val = (IF i = Len(ret.upper_bounds) THEN i - 1 ELSE i)

\* a value equal to a bound that is not the last was looked up and placed
\* in the bin after the one it bounds
C1_Witness ==
    /\ BinLookedUp
    /\ \E i \in DOMAIN ret.upper_bounds :
           /\ i < Len(ret.upper_bounds)
           /\ ret.value = ret.upper_bounds[i]
           /\ ret.out = Ok(i)

\* C2, as claimed: for every table table_to_fn accepts and every DistDot,
\* the closure returns cells[row * K + col] with row and col the bins of
\* dist and dot, the index being within 0 .. D * K - 1.
C2_CellOfBins ==
    (ret.op = "score_fn" /\ ~IsNaN(ret.dd.dist) /\ ~IsNaN(ret.dd.dot)) =>
        LET D == Len(ret.f.dist_thresholds)
            K == Len(ret.f.dot_thresholds)
            row == find_bin_binary(ret.dd.dist, ret.f.dist_thresholds, overflow_checks)
            col == find_bin_binary(ret.dd.dot, ret.f.dot_thresholds, overflow_checks)
        IN  /\ ~ret.out.panicked
            /\ ~row.panicked /\ ~col.panicked
            /\ row.val * K + col.val \in 0..(D * K - 1)
            /\ ret.out.val = ret.f.cells[row.val * K + col.val + 1]

\* C3: query_target(i, j, normalized, TRUE) has the outcome of
\* query_target(j, i, normalized, TRUE): the symmetrized score does not
\* depend on the order of the two indices.
C3_Symmetric ==
    (ret.op = "query_target" /\ ret.symmetric) =>
        SameOutcome(ret.out,
                    query_target(ret.target_idx, ret.query_idx, ret.normalized, TRUE))

\* a symmetrized score of two different neurons was returned whose two
\* directional scores differ
C3_Witness ==
    /\ ret.op = "query_target"
    /\ ret.symmetric
    /\ ret.query_idx # ret.target_idx
    /\ ~ret.out.panicked
    /\ ret.out.val # None
    /\ query_target(ret.query_idx, ret.target_idx, ret.normalized, FALSE)
           # query_target(ret.target_idx, ret.query_idx, ret.normalized, FALSE)

\* C4, as claimed: for every stored neuron i, whatever constructor built it,
\* query_target(i, i, FALSE, FALSE), when it returns, returns self_hit(i).
C4_SelfQueryIsSelfHit ==
    (/\ ret.op = "query_target"
     /\ ret.query_idx = ret.target_idx
     /\ InRange(ret.query_idx)
     /\ ~ret.normalized
     /\ ~ret.symmetric
     /\ ~ret.out.panicked) =>
        ret.out.val = self_hit(ret.query_idx)

\* no element occurs twice in the list
NoRepeat(s) == Cardinality(Range(s)) = Len(s)

\* every index of the list is an index of the arena
AllInRange(s) == \A i \in Range(s) : InRange(i)

\* queries_targets has returned a map
BatchReturned == ret.op = "queries_targets" /\ ~ret.out.panicked

\* C5, as claimed: the map queries_targets(Q, T, ..) returns has at most
\* |Q| * |T| entries, and exactly |Q| * |T| entries if and only if every
\* index of Q and of T is in range.
C5_SizeIffInRange ==
    BatchReturned =>
        LET size == Cardinality(DOMAIN ret.out.val)
            full == Len(ret.query_idxs) * Len(ret.target_idxs)
        IN  /\ size <= full
            /\ size = full <=>
                   AllInRange(ret.query_idxs) /\ AllInRange(ret.target_idxs)

\* C5, amended: the map queries_targets(Q, T, ..) returns has one entry for
\* each distinct pair (q, t) of an in-range index q of Q and an in-range
\* index t of T and no other entry; it has at most |Q| * |T| entries, and
\* exactly |Q| * |T| entries if and only if Q or T is empty, or every index
\* of Q and of T is in range and neither list repeats an index.
C5_SizeIffDistinctInRange ==
    BatchReturned =>
        LET size == Cardinality(DOMAIN ret.out.val)
            full == Len(ret.query_idxs) * Len(ret.target_idxs)
        IN  /\ DOMAIN ret.out.val =
                   {<<q, t>> : q \in {i \in Range(ret.query_idxs) : InRange(i)},
                               t \in {i \in Range(ret.target_idxs) : InRange(i)}}
            /\ size <= full
            /\ size = full <=>
                   \/ ret.query_idxs = <<>>
                   \/ ret.target_idxs = <<>>
                   \/ /\ AllInRange(ret.query_idxs) /\ NoRepeat(ret.query_idxs)
                      /\ AllInRange(ret.target_idxs) /\ NoRepeat(ret.target_idxs)

\* a batch whose indices are all in range and whose query list repeats an
\* index has returned fewer than |Q| * |T| entries
C5_Witness ==
    /\ BatchReturned
    /\ ret.target_idxs # <<>>
    /\ AllInRange(ret.query_idxs) /\ AllInRange(ret.target_idxs)
    /\ ~NoRepeat(ret.query_idxs)
    /\ Cardinality(DOMAIN ret.out.val) < Len(ret.query_idxs) * Len(ret.target_idxs)

\* C6, as claimed: a neuron that new or new_with_tangents returns has as
\* many tangents as points, and at least 5 of them; fewer than 5 points are
\* rejected with an error.
C6_PointsMatchTangents ==
    ret.op \in {"new", "new_with_tangents"} =>
        /\ Len(ret.points) < N_NEIGHBORS => ret.res.tag = "Err"
        /\ ret.res.tag = "Ok" =>
               /\ Len(points_of(ret.res.val)) = Len(tangents_of(ret.res.val))
               /\ Len(points_of(ret.res.val)) >= N_NEIGHBORS

\* C7, as claimed: with the neurons and the scoring function constructed,
\* no query-time operation of the arena panics.
C7_QueriesNeverPanic ==
    ret.op \in {"query_target", "queries_targets", "all_v_all",
                "self_hit", "points", "tangents"} =>
        ~ret.out.panicked

\* C8, as claimed: query_target(q, t, ..) returns None exactly when q or t
\* is out of range and a score otherwise; self_hit(i) returns None exactly
\* when i is out of range.
C8_AbsentIffOutOfRange ==
    /\ ret.op = "query_target" =>
           /\ ~ret.out.panicked
           /\ ret.out.val = None <=>
                  ~InRange(ret.query_idx) \/ ~InRange(ret.target_idx)
    /\ ret.op = "self_hit" =>
           /\ ~ret.out.panicked
           /\ ret.out.val = None <=> ~InRange(ret.idx)

\* the step is a call of add_neuron that returns
AddReturns ==
    /\ ret.op # "add_neuron"
    /\ ret'.op = "add_neuron"
    /\ ~ret'.out.panicked

\* C9: the k-th call of add_neuron that returns, returns k - 1 and appends
\* its neuron at that index; every other step, a query or an add_neuron
\* that panics in the scoring function, leaves the stored neurons as they
\* are, so that an index once returned keeps referring to the same neuron.
C9_AppendOnly ==
    [][/\ SubSeq(neurons_scores', 1, Len(neurons_scores)) = neurons_scores
       /\ AddReturns =>
              /\ ret'.out.val = n_adds
              /\ n_adds' = n_adds + 1
              /\ Len(neurons_scores') = Len(neurons_scores) + 1
              /\ neurons_scores'[ret'.out.val + 1].neuron = ret'.neuron
       /\ ~AddReturns => neurons_scores' = neurons_scores]_vars

\* the second add_neuron has returned index 1 and the arena holds two
\* neurons
C9_Witness ==
    /\ ret.op = "add_neuron"
    /\ ret.out = Ok(1)
    /\ n_adds = 2
    /\ Len(neurons_scores) = 2
    /\ neurons_scores[2].neuron = ret.neuron

\* C10, as claimed: the cached self-hit of every stored neuron i is
\* N_i * f({dist: 0, dot: 1}), with N_i the number of points of neuron i.
C10_CachedSelfHit ==
    \A idx \in 0..(Len(neurons_scores) - 1) :
        LET Cached(s) ==
                /\ ~s.panicked
                /\ Get(idx).score =
                       FMul(F64(Len(points_of(Get(idx).neuron))), s.val)
        IN  Cached(call_score_fn(score_fn, DistDotDefault, overflow_checks))

\* C11, as claimed: when the eigen-decomposition of some point's
\* neighbourhood yields no finite eigenvector, new fails with an error; so
\* every tangent of a neuron that new returns is finite.
C11_NoFiniteAxisFails ==
    (ret.op = "new" /\ ret.res.tag = "Ok") =>
        \A i \in DOMAIN tangents_of(ret.res.val) :
            IsFiniteVector(tangents_of(ret.res.val)[i])

\* C12, as claimed: every entry (q, t) of the map queries_targets returns
\* is the score query_target(q, t, normalize, symmetric) returns, the
\* diagonal shortcut and the reuse of a reversed pair included.
C12_BatchIsQueryTarget ==
    (ret.op = "queries_targets" /\ ~ret.out.panicked) =>
        \A key \in DOMAIN ret.out.val :
            LET Same(s) == ~s.panicked => s.val = Some(ret.out.val[key])
            IN  Same(query_target(key[1], key[2], ret.normalize, ret.symmetric))

====
